---- MODULE Spec2Model ----
(***************************************************************************)
(* The gmp recipe (src/recipes/gmp/all/conanfile.py, class GmpConan) as a  *)
(* state machine.  The state is the recipe object (settings, the option    *)
(* set, the package identity, the published components), the source tree   *)
(* (the mode of the fetched configure script), what generate() emitted and *)
(* the sequence of external commands invoked so far.  One action per hook  *)
(* of the recipe; build() is split at its external commands because each   *)
(* of them can fail.                                                       *)
(*                                                                         *)
(* Option values are the strings the package manager stores ("True",       *)
(* "False", "None", "reentrant", "0", ...); their truth value is computed  *)
(* the way the package manager computes it (Truthy).  Reading or deleting  *)
(* an option that is not in the option set raises ConanException; get_safe *)
(* and rm_safe do not.  The hooks are modelled as written, including the   *)
(* option names they use (enable_fat, enable_assembly, enable_cxx), which  *)
(* are not the names the option table declares (fat, assembly, cxx).       *)
(* options_description (lines 82-326) is documentation and holds no state. *)
(***************************************************************************)
EXTENDS Integers, Sequences, FiniteSets, TLC

VARIABLES
    settings,        \* [os, arch, compiler, version]
    conan_major,     \* major version of the package manager running the recipe
    removed_settings,\* sub-settings removed with settings.rm_safe
    self_options,    \* self.options: option name -> value, for the options present
    info_options,    \* self.info.options: the options that enter the package id
    has_info,        \* TRUE once self.info exists (package_id() has run)
    pc,              \* the hook or step the run executes next
    entry,           \* the hook at which this run entered the recipe
    err,             \* the exception that ended the run, "none" if none
    failed_at,       \* the hook or step that raised it
    trace,           \* external commands invoked so far, in order
    source_tree,     \* "absent" or "fetched"
    mode0,           \* st_mode of the configure script as fetched
    mode,            \* st_mode of the configure script now
    exec_mode,       \* st_mode of the configure script when it was executed
    configure_args,  \* tc.configure_args as written by tc.generate(env)
    build_env,       \* the environment written by tc.generate(env): name -> value
    generated,       \* files written into the generators folder
    package_folder,  \* entries of the package folder
    components       \* cpp_info.components: name -> [libs, requires, system_libs]

vars == <<settings, conan_major, removed_settings, self_options, info_options,
          has_info, pc, entry, err, failed_at, trace, source_tree, mode0, mode,
          exec_mode, configure_args, build_env, generated, package_folder,
          components>>

(***************************************************************************)
(* Bounds of the model.                                                    *)
(***************************************************************************)
\* how many value profiles the options that no hook reads are drawn from
NumProfiles == 2

(***************************************************************************)
(* The declared option table and its defaults.                             *)
(***************************************************************************)
NailsRange == 64

BoolValues == <<"True", "False">>

options ==
    [ shared          |-> BoolValues,
      fPIC            |-> BoolValues,
      assembly        |-> BoolValues,
      cxx             |-> BoolValues,
      fat             |-> BoolValues,
      alloca          |-> <<"alloca", "malloc-reentrant", "malloc-notreentrant",
                            "reentrant", "notreentrant", "debug">>,
      fft             |-> BoolValues,
      old_fft_full    |-> BoolValues,
      assertions      |-> BoolValues,
      profiling       |-> <<"prof", "gprof", "instrument", "None">>,
      nails           |-> <<"True">> \o [i \in 1..NailsRange |-> ToString(i - 1)],
      minithres       |-> BoolValues,
      fake_cpuid      |-> BoolValues,
      maintainer_mode |-> BoolValues,
      with_aix_soname |-> <<"aix", "svr4", "both">>,
      with_gnu_ld     |-> BoolValues,
      run_checks      |-> BoolValues ]

default_options ==
    [ shared          |-> "False",
      fPIC            |-> "False",
      assembly        |-> "True",
      cxx             |-> "False",
      fat             |-> "False",
      alloca          |-> "reentrant",
      fft             |-> "True",
      old_fft_full    |-> "False",
      assertions      |-> "False",
      profiling       |-> "None",
      nails           |-> "0",
      minithres       |-> "False",
      fake_cpuid      |-> "False",
      maintainer_mode |-> "False",
      with_aix_soname |-> "aix",
      with_gnu_ld     |-> "False",
      run_checks      |-> "True" ]

Declared == DOMAIN options

(***************************************************************************)
(* The package manager's option objects, as the recipe uses them.          *)
(***************************************************************************)
\* bool(option value): every value but these is true
Truthy(v) == v \notin {"False", "false", "None", "none", "0", "off", ""}

Has(opts, field) == field \in DOMAIN opts

\* options.get_safe(field, default)
get_safe(opts, field, default) == IF Has(opts, field) THEN opts[field] ELSE default

Remove(opts, field) == [o \in (DOMAIN opts) \ {field} |-> opts[o]]

\* del options.<field>: an absent field raises ConanException under the 2.x
\* package manager; the 1.x Options wrapper swallows that exception
StrictDel(major) == major >= 2

del(opts, field, major) ==
    IF Has(opts, field)
    THEN [opts |-> Remove(opts, field), raised |-> FALSE]
    ELSE [opts |-> opts, raised |-> StrictDel(major)]

\* options.rm_safe(field)
rm_safe(opts, field) == IF Has(opts, field) THEN Remove(opts, field) ELSE opts

is_msvc(s) == s.compiler \in {"Visual Studio", "msvc"}

is_apple_os(s) == s.os \in {"Macos", "iOS", "watchOS", "tvOS"}

yes_no(v) == IF Truthy(v) THEN "yes" ELSE "no"

(***************************************************************************)
(* The order in which the package manager calls the hooks.                 *)
(***************************************************************************)
\* the hooks in calling order, build() split into its four steps: "build" is
\* its call of _patch_sources()
Steps == <<"config_options", "configure", "validate", "package_id", "source",
           "generate", "build", "build_configure", "build_make", "build_check",
           "package", "package_info", "done">>

Rank(step) == CHOOSE i \in 1..Len(Steps) : Steps[i] = step

(***************************************************************************)
(* config_options() and configure(): the option set they leave and whether *)
(* they raised.  A raise keeps the deletions made before it.               *)
(***************************************************************************)
config_options(s, opts, major) ==
    LET r1 == IF s.os = "Windows"
              THEN del(opts, "fPIC", major)
              ELSE [opts |-> opts, raised |-> FALSE]
    IN  IF r1.raised THEN r1
        ELSE IF s.arch \notin {"x86", "x86_64"}
             THEN del(r1.opts, "enable_fat", major)
             ELSE r1

LibcxxSettings == {"compiler.libcxx", "compiler.cppstd"}

configure(s, opts, major) ==
    IF ~Has(opts, "shared")
    THEN [opts |-> opts, removed |-> {}, raised |-> TRUE]
    ELSE
    LET o1 == IF Truthy(opts["shared"]) THEN rm_safe(opts, "fPIC") ELSE opts
        r2 == IF Truthy(get_safe(o1, "enable_fat", "None"))
              THEN del(o1, "enable_assembly", major)
              ELSE [opts |-> o1, raised |-> FALSE]
    IN  IF r2.raised \/ ~Has(r2.opts, "enable_cxx")
        THEN [opts |-> r2.opts, removed |-> {}, raised |-> TRUE]
        ELSE [opts |-> r2.opts,
              removed |-> IF ~Truthy(r2.opts["enable_cxx"]) THEN LibcxxSettings ELSE {},
              raised |-> FALSE]

(***************************************************************************)
(* package_id() and validate().                                            *)
(***************************************************************************)
\* mutant: package_id() that forgets the deletion
package_id_keeps_run_checks(opts, major) == [opts |-> opts, raised |-> FALSE]

\* self.info.options starts as a copy of self.options; package_id() deletes
\* run_checks from the copy
package_id(opts, major) == del(opts, "run_checks", major)

\* mutant: validate() that tests the compiler only for static builds
validate_static_only(s, opts) == is_msvc(s) /\ ~Truthy(opts["shared"])

\* TRUE when validate() raises ConanInvalidConfiguration
validate(s, opts) == is_msvc(s) /\ Truthy(opts["shared"])

(***************************************************************************)
(* generate(): the configure arguments and environment it writes.          *)
(***************************************************************************)
\* AutotoolsToolchain(self): the arguments the toolchain starts from
AutotoolsToolchain(opts) ==
    IF ~Has(opts, "shared") THEN <<>>
    ELSE IF Truthy(opts["shared"])
         THEN << <<"--enable-shared", "">>, <<"--disable-static", "">> >>
         ELSE << <<"--disable-shared", "">>, <<"--enable-static", "">> >>

\* the recipe's own arguments (lines 391-396); the last one reads an option
\* with plain attribute access
recipe_args(opts) ==
    << <<"--with-pic", yes_no(get_safe(opts, "fPIC", "True"))>>,
       <<"--enable-assembly", yes_no(get_safe(opts, "enable_assembly", "False"))>>,
       <<"--enable-fat", yes_no(get_safe(opts, "enable_fat", "False"))>>,
       <<"--enable-cxx", yes_no(get_safe(opts, "enable_cxx", "None"))>> >>

recipe_args_raise(opts) == ~Has(opts, "enable_cxx")

msvc_args ==
    << <<"ac_cv_c_restrict", "restrict">>,
       <<"gmp_cv_asm_label_suffix", ":">>,
       <<"lt_cv_sys_global_symbol_pipe", "cat">> >>

MsvcFS == 180
VisualStudioFS == 12

needs_FS(s) ==
    \/ s.compiler = "msvc" /\ s.version >= MsvcFS
    \/ s.compiler = "Visual Studio" /\ s.version >= VisualStudioFS

yasm_machine == [x86 |-> "x86", x86_64 |-> "amd64"]

generate(s, opts) ==
    IF recipe_args_raise(opts)
    THEN [raised |-> "ConanException", args |-> <<>>, env |-> <<>>]
    ELSE IF is_msvc(s) /\ s.arch \notin DOMAIN yasm_machine
    THEN [raised |-> "KeyError", args |-> <<>>, env |-> <<>>]
    ELSE
    LET pic    == IF Truthy(get_safe(opts, "fPIC", "None")) THEN <<"-fPIC">> ELSE <<>>
        fs     == IF is_msvc(s) /\ needs_FS(s) THEN <<"-FS">> ELSE <<>>
        cflags == pic \o fs
        cxxflags == pic \o (IF is_msvc(s) THEN <<"-EHsc">> ELSE <<>>) \o fs
        base   == [CFLAGS |-> cflags, CXXFLAGS |-> cxxflags]
        tools  == [CFLAGS |-> cflags, CXXFLAGS |-> cxxflags,
                   CC |-> <<"cl -nologo">>,
                   CCAS |-> <<"yasm_wrapper.sh", yasm_machine[s.arch]>>,
                   CXX |-> <<"cl -nologo">>, LD |-> <<"link -nologo">>,
                   AR |-> <<"lib -nologo">>, NM |-> <<"dumpbin_nm.py">>]
    IN  [raised |-> "none",
         args |-> AutotoolsToolchain(opts) \o recipe_args(opts)
                  \o (IF s.os = "Windows" THEN << <<"--srcdir", "../src">> >> ELSE <<>>)
                  \o (IF is_msvc(s) THEN msvc_args ELSE <<>>),
         env |-> IF is_msvc(s) THEN tools ELSE base]

(***************************************************************************)
(* _patch_sources(): the mode it leaves on the configure script.           *)
(***************************************************************************)
S_IEXEC == 64

RECURSIVE BitOr(_, _)
BitOr(a, b) ==
    IF a = 0 THEN b
    ELSE IF b = 0 THEN a
    ELSE 2 * BitOr(a \div 2, b \div 2) + (IF a % 2 = 1 \/ b % 2 = 1 THEN 1 ELSE 0)

\* mutant: chmod to S_IEXEC alone, without or-ing it into the mode read
_patch_sources_chmod_only(s, m) == IF is_apple_os(s) THEN S_IEXEC ELSE m

_patch_sources(s, m) == IF is_apple_os(s) THEN BitOr(m, S_IEXEC) ELSE m

(***************************************************************************)
(* package_info(): the components it publishes and whether it raised.      *)
(***************************************************************************)
NoComponents == [c \in {} |-> {}]

libgmp == [pkg_config_name |-> "gmp", libs |-> <<"gmp">>, requires |-> <<>>,
           system_libs |-> <<>>, cmake_name |-> ""]

gmpxx(s) == [pkg_config_name |-> "gmpxx", libs |-> <<"gmpxx">>,
             requires |-> <<"libgmp">>,
             system_libs |-> IF s.os # "Windows" THEN <<"m">> ELSE <<>>,
             cmake_name |-> "GMPXX"]

package_info(s, opts) ==
    IF ~Has(opts, "enable_cxx")
    THEN [raised |-> TRUE, components |-> [c \in {"libgmp"} |-> libgmp]]
    ELSE [raised |-> FALSE,
          components |->
            [c \in {"libgmp"} \cup (IF Truthy(opts["enable_cxx"]) THEN {"gmpxx"} ELSE {}) |->
                IF c = "libgmp" THEN [libgmp EXCEPT !.cmake_name = "GMP"] ELSE gmpxx(s)]]

(***************************************************************************)
(* The run: how a hook ends, and what an external command's failure is.    *)
(***************************************************************************)
\* the exception an external command raises when it fails
Failure ==
    [get |-> "get failed", patch |-> "patch failed", configure |-> "configure failed",
     make |-> "make failed", check |-> "make check failed",
     install |-> "make install failed",
     install_name_tool |-> "install_name_tool failed"]

Commands == DOMAIN Failure

\* a hook or step ends: with no exception the run goes on to `next`, with an
\* exception the run ends there and the exception is its outcome
Finish(step, next, exc) ==
    IF exc = "none"
    THEN pc' = next /\ UNCHANGED <<err, failed_at>>
    ELSE pc' = "aborted" /\ err' = exc /\ failed_at' = step

\* an external command is invoked and succeeds or fails
Invoke(cmd, ok) == IF ok THEN "none" ELSE Failure[cmd]

(***************************************************************************)
(* The hooks, as actions.                                                  *)
(***************************************************************************)
ConfigOptions ==
    /\ pc = "config_options"
    /\ LET r == config_options(settings, self_options, conan_major)
       IN  /\ self_options' = r.opts
           /\ Finish("config_options", "configure",
                     IF r.raised THEN "ConanException" ELSE "none")
    /\ UNCHANGED <<settings, conan_major, removed_settings, info_options, has_info,
                   entry, trace, source_tree, mode0, mode, exec_mode, configure_args,
                   build_env, generated, package_folder, components>>

Configure ==
    /\ pc = "configure"
    /\ LET r == configure(settings, self_options, conan_major)
       IN  /\ self_options' = r.opts
           /\ removed_settings' = removed_settings \cup r.removed
           /\ Finish("configure", "validate",
                     IF r.raised THEN "ConanException" ELSE "none")
    /\ UNCHANGED <<settings, conan_major, info_options, has_info,
                   entry, trace, source_tree, mode0, mode, exec_mode, configure_args,
                   build_env, generated, package_folder, components>>

Validate ==
    /\ pc = "validate"
    /\ Finish("validate", "package_id",
              IF validate(settings, self_options)
              THEN "ConanInvalidConfiguration" ELSE "none")
    /\ UNCHANGED <<settings, conan_major, removed_settings, self_options, info_options,
                   has_info, entry, trace, source_tree, mode0, mode, exec_mode,
                   configure_args, build_env, generated, package_folder, components>>

PackageId ==
    /\ pc = "package_id"
    /\ LET r == package_id(self_options, conan_major)
       IN  /\ info_options' = r.opts
           /\ has_info' = TRUE
           /\ Finish("package_id", "source",
                     IF r.raised THEN "ConanException" ELSE "none")
    /\ UNCHANGED <<settings, conan_major, removed_settings, self_options,
                   entry, trace, source_tree, mode0, mode, exec_mode,
                   configure_args, build_env, generated, package_folder, components>>

\* st_mode values a fetched configure script can have: 0644, 0755, 0600 and
\* 0700 on a regular file
FetchedModes == {33188, 33261, 33152, 33216}

Source ==
    /\ pc = "source"
    /\ \E ok \in BOOLEAN, m \in FetchedModes :
          /\ trace' = Append(trace, "get")
          /\ IF ok
             THEN source_tree' = "fetched" /\ mode0' = m /\ mode' = m
             ELSE UNCHANGED <<source_tree, mode0, mode>>
          /\ Finish("source", "generate", Invoke("get", ok))
    /\ UNCHANGED <<settings, conan_major, removed_settings, self_options, info_options,
                   has_info, entry, exec_mode, configure_args, build_env, generated,
                   package_folder, components>>

Generate ==
    /\ pc = "generate"
    /\ LET r == generate(settings, self_options)
       IN  /\ IF r.raised = "none"
              THEN /\ configure_args' = r.args
                   /\ build_env' = r.env
                   /\ generated' = generated \cup {"conanbuild", "conanautotoolstoolchain"}
              ELSE /\ generated' = generated \cup {"conanbuild"}
                   /\ UNCHANGED <<configure_args, build_env>>
           /\ Finish("generate", "build", r.raised)
    /\ UNCHANGED <<settings, conan_major, removed_settings, self_options, info_options,
                   has_info, entry, trace, source_tree, mode0, mode, exec_mode,
                   package_folder, components>>

\* build(), line 443: self._patch_sources()
BuildPatch ==
    /\ pc = "build"
    /\ \E ok \in BOOLEAN :
          /\ trace' = Append(trace, "patch")
          /\ mode' = IF ok THEN _patch_sources(settings, mode) ELSE mode
          /\ Finish("build", "build_configure", Invoke("patch", ok))
    /\ UNCHANGED <<settings, conan_major, removed_settings, self_options, info_options,
                   has_info, entry, source_tree, mode0, exec_mode, configure_args,
                   build_env, generated, package_folder, components>>

\* mutant: a failed configure is invoked a second time
BuildConfigureRetry ==
    /\ pc = "build_configure"
    /\ \E ok \in BOOLEAN :
          /\ trace' = Append(trace, "configure")
          /\ exec_mode' = mode
          /\ IF ~ok /\ Len(trace) < 2
             THEN UNCHANGED <<pc, err, failed_at>>
             ELSE Finish("build_configure", "build_make", Invoke("configure", ok))
    /\ UNCHANGED <<settings, conan_major, removed_settings, self_options, info_options,
                   has_info, entry, source_tree, mode0, mode, configure_args,
                   build_env, generated, package_folder, components>>

\* build(), lines 444-445: autotools.configure()
BuildConfigure ==
    /\ pc = "build_configure"
    /\ \E ok \in BOOLEAN :
          /\ trace' = Append(trace, "configure")
          /\ exec_mode' = mode
          /\ Finish("build_configure", "build_make", Invoke("configure", ok))
    /\ UNCHANGED <<settings, conan_major, removed_settings, self_options, info_options,
                   has_info, entry, source_tree, mode0, mode, configure_args,
                   build_env, generated, package_folder, components>>

\* build(), line 446: autotools.make()
BuildMake ==
    /\ pc = "build_make"
    /\ \E ok \in BOOLEAN :
          /\ trace' = Append(trace, "make")
          /\ Finish("build_make", "build_check", Invoke("make", ok))
    /\ UNCHANGED <<settings, conan_major, removed_settings, self_options, info_options,
                   has_info, entry, source_tree, mode0, mode, exec_mode, configure_args,
                   build_env, generated, package_folder, components>>

\* mutant: make check runs whatever run_checks says
BuildCheckAlways ==
    /\ pc = "build_check"
    /\ \E ok \in BOOLEAN :
          /\ trace' = Append(trace, "check")
          /\ Finish("build_check", "package", Invoke("check", ok))
    /\ UNCHANGED <<settings, conan_major, removed_settings, self_options, info_options,
                   has_info, entry, source_tree, mode0, mode, exec_mode, configure_args,
                   build_env, generated, package_folder, components>>

\* build(), lines 448-449: if self.options.run_checks: autotools.make(target="check")
BuildCheck ==
    /\ pc = "build_check"
    /\ IF ~Has(self_options, "run_checks")
       THEN /\ Finish("build_check", "package", "ConanException")
            /\ UNCHANGED trace
       ELSE IF Truthy(self_options["run_checks"])
       THEN \E ok \in BOOLEAN :
               /\ trace' = Append(trace, "check")
               /\ Finish("build_check", "package", Invoke("check", ok))
       ELSE /\ Finish("build_check", "package", "none")
            /\ UNCHANGED trace
    /\ UNCHANGED <<settings, conan_major, removed_settings, self_options, info_options,
                   has_info, entry, source_tree, mode0, mode, exec_mode, configure_args,
                   build_env, generated, package_folder, components>>

Licenses == {"licenses/COPYINGv2", "licenses/COPYING.LESSERv3"}

\* what make install leaves in the package folder
Installed == {"include", "lib/libgmp", "lib/libgmp.la", "lib/pkgconfig", "share"}

\* removed by lines 456-458
Cleaned == {"lib/pkgconfig", "share", "lib/libgmp.la"}

\* fix_apple_shared_install_name() runs install_name_tool on the shared
\* libraries of an Apple build
fixes_install_name(s, opts) == is_apple_os(s) /\ Truthy(get_safe(opts, "shared", "None"))

Package ==
    /\ pc = "package"
    /\ \E ok \in BOOLEAN, fixed \in BOOLEAN :
          IF ~ok
          THEN /\ trace' = Append(trace, "install")
               /\ package_folder' = package_folder \cup Licenses
               /\ Finish("package", "package_info", Invoke("install", FALSE))
          ELSE IF fixes_install_name(settings, self_options)
          THEN /\ trace' = trace \o <<"install", "install_name_tool">>
               /\ package_folder' = ((package_folder \cup Licenses) \cup Installed) \ Cleaned
               /\ Finish("package", "package_info", Invoke("install_name_tool", fixed))
          ELSE /\ fixed
               /\ trace' = Append(trace, "install")
               /\ package_folder' = ((package_folder \cup Licenses) \cup Installed) \ Cleaned
               /\ Finish("package", "package_info", "none")
    /\ UNCHANGED <<settings, conan_major, removed_settings, self_options, info_options,
                   has_info, entry, source_tree, mode0, mode, exec_mode, configure_args,
                   build_env, generated, components>>

PackageInfo ==
    /\ pc = "package_info"
    /\ LET r == package_info(settings, self_options)
       IN  /\ components' = r.components
           /\ Finish("package_info", "done",
                     IF r.raised THEN "ConanException" ELSE "none")
    /\ UNCHANGED <<settings, conan_major, removed_settings, self_options, info_options,
                   has_info, entry, trace, source_tree, mode0, mode, exec_mode,
                   configure_args, build_env, generated, package_folder>>

(***************************************************************************)
(* The configurations a run starts from.                                   *)
(***************************************************************************)
Settings ==
    {[os |-> "Linux", arch |-> a, compiler |-> "gcc", version |-> 11] :
        a \in {"x86_64", "armv8"}}
    \cup {[os |-> "Macos", arch |-> a, compiler |-> "apple-clang", version |-> 14] :
        a \in {"x86_64", "armv8"}}
    \cup {[os |-> "Windows", arch |-> a, compiler |-> c.name, version |-> c.version] :
        a \in {"x86_64", "armv8"},
        c \in {[name |-> "gcc", version |-> 11], [name |-> "msvc", version |-> 193],
               [name |-> "Visual Studio", version |-> 11]}}

ConanMajors == {1, 2}

\* the options some hook reads (by any name): every combination is drawn
ReadOptions == {"shared", "fPIC", "assembly", "cxx", "fat", "run_checks"}

IndexOf(seq, v) == CHOOSE i \in 1..Len(seq) : seq[i] = v

\* the p-th value of an option, counting from its default through its declared values
ProfileValue(o, p) ==
    options[o][((IndexOf(options[o], default_options[o]) - 1 + p) % Len(options[o])) + 1]

\* the option values a user can give: any values for the options read, one
\* of NumProfiles value profiles for the others
OptionValues ==
    {[o \in Declared |-> IF o \in ReadOptions THEN b[o] ELSE ProfileValue(o, p)] :
        b \in [ReadOptions -> {"True", "False"}], p \in 0..(NumProfiles - 1)}

\* the package manager enters the recipe at config_options() when it
\* computes a dependency graph, and at a later hook in its per-step commands
\* (source, build, export-pkg, the consumer side of package_info)
EntryPoints == {"config_options", "validate", "package_id", "source", "generate",
                "build", "package", "package_info"}

\* the option set at an entry point: as declared at config_options(), and
\* otherwise what the deletions of config_options() and configure() leave
EntryOptions(e, s, o, major) ==
    IF e = "config_options" THEN o
    ELSE configure(s, config_options(s, o, major).opts, major).opts

\* a run that enters past validate() has a configuration validate() accepts
Init ==
    \E e \in EntryPoints, s \in Settings, major \in ConanMajors, o \in OptionValues,
       m \in FetchedModes :
        /\ Rank(e) > Rank("validate") => ~validate(s, EntryOptions(e, s, o, major))
        /\ entry = e
        /\ pc = e
        /\ settings = s
        /\ conan_major = major
        /\ removed_settings = {}
        /\ self_options = EntryOptions(e, s, o, major)
        /\ has_info = (Rank(e) > Rank("package_id"))
        /\ info_options = IF Rank(e) > Rank("package_id")
                          THEN package_id(EntryOptions(e, s, o, major), major).opts
                          ELSE <<>>
        /\ err = "none"
        /\ failed_at = "none"
        /\ trace = <<>>
        /\ source_tree = IF Rank(e) > Rank("source") THEN "fetched" ELSE "absent"
        /\ mode0 = IF Rank(e) > Rank("source") THEN m ELSE 0
        /\ mode = IF Rank(e) > Rank("build_check") THEN _patch_sources(s, m)
                  ELSE IF Rank(e) > Rank("source") THEN m ELSE 0
        /\ exec_mode = -1
        /\ configure_args = <<>>
        /\ build_env = <<>>
        /\ generated = {}
        /\ package_folder = IF e = "package_info" THEN (Licenses \cup Installed) \ Cleaned
                            ELSE {}
        /\ components = NoComponents

Next ==
    \/ ConfigOptions
    \/ Configure
    \/ Validate
    \/ PackageId
    \/ Source
    \/ Generate
    \/ BuildPatch
    \/ BuildConfigure
    \/ BuildMake
    \/ BuildCheck
    \/ Package
    \/ PackageInfo

Spec == Init /\ [][Next]_vars

(***************************************************************************)
(* Vocabulary of the properties.                                           *)
(***************************************************************************)
\* the step was executed in this run (to completion or to the exception
\* that ended the run)
Ran(step) ==
    /\ Rank(entry) <= Rank(step)
    /\ IF pc = "aborted" THEN Rank(failed_at) >= Rank(step) ELSE Rank(pc) > Rank(step)

\* the step was executed in this run and raised nothing
Completed(step) ==
    /\ Ran(step)
    /\ ~(pc = "aborted" /\ failed_at = step)

Invoked(cmd) == \E i \in 1..Len(trace) : trace[i] = cmd

\* the value of an option, None when it is not in the option set
Option(name) == get_safe(self_options, name, "None")

(***************************************************************************)
(* C1.  With an MSVC compiler (msvc or Visual Studio) and shared = True,   *)
(* validate() raises a configuration error, and no external command (fetch,*)
(* patch, configure, make, make check, install) is invoked in the run.     *)
(***************************************************************************)
C1_MsvcSharedRejected ==
    (is_msvc(settings) /\ Truthy(Option("shared"))) =>
        /\ trace = <<>>
        /\ Ran("validate") =>
              /\ pc = "aborted"
              /\ failed_at = "validate"
              /\ err = "ConanInvalidConfiguration"

C1_Witness ==
    /\ is_msvc(settings)
    /\ Option("shared") = "True"
    /\ entry = "validate"
    /\ pc = "aborted"
    /\ err = "ConanInvalidConfiguration"

(***************************************************************************)
(* C2.  The option set left in the package identity by package_id() is the *)
(* option set of the recipe without run_checks, with the same values; it   *)
(* is the same whatever the value of run_checks, all else being equal.     *)
(***************************************************************************)
C2_RunChecksNotInIdentity ==
    has_info =>
        /\ DOMAIN info_options = (DOMAIN self_options) \ {"run_checks"}
        /\ \A o \in DOMAIN info_options : info_options[o] = self_options[o]
        /\ \A v \in {"True", "False"} :
              package_id([self_options EXCEPT !["run_checks"] = v], conan_major).opts
                  = info_options

C2_Witness ==
    /\ entry = "package_id"
    /\ Completed("package_id")
    /\ has_info
    /\ Option("run_checks") = "False"
    /\ Option("alloca") # default_options["alloca"]

(***************************************************************************)
(* C3.  After package_info(), component libgmp (library gmp) is published  *)
(* for every value of cxx, and component gmpxx (library gmpxx, requiring   *)
(* libgmp) is published exactly when the declared option cxx is True.      *)
(***************************************************************************)
C3_GmpxxIffCxx ==
    Ran("package_info") =>
        /\ "libgmp" \in DOMAIN components
        /\ components["libgmp"].libs = <<"gmp">>
        /\ ("gmpxx" \in DOMAIN components) <=> Truthy(Option("cxx"))
        /\ "gmpxx" \in DOMAIN components =>
              /\ components["gmpxx"].libs = <<"gmpxx">>
              /\ components["gmpxx"].requires = <<"libgmp">>

(***************************************************************************)
(* C4.  On an architecture other than x86 and x86_64 the declared option   *)
(* fat is absent after config_options() and generate() emits               *)
(* --enable-fat=no; on x86 and x86_64 fat stays present and the emitted    *)
(* --enable-fat is yes exactly when fat is True.                           *)
(***************************************************************************)
Emitted(flag, value) ==
    \E i \in 1..Len(configure_args) : configure_args[i] = <<flag, value>>

C4_FatAvailability ==
    /\ Completed("config_options") =>
          (Has(self_options, "fat") <=> settings.arch \in {"x86", "x86_64"})
    /\ Ran("generate") =>
          Emitted("--enable-fat",
                  IF settings.arch \in {"x86", "x86_64"} /\ Truthy(Option("fat"))
                  THEN "yes" ELSE "no")

(***************************************************************************)
(* C5.  Every declared option but run_checks is translated by generate()   *)
(* into configure arguments or environment that depend on its value: two   *)
(* values of the option yield different generated output.                  *)
(***************************************************************************)
Values(o) == {options[o][i] : i \in 1..Len(options[o])}

C5_EveryOptionTranslated ==
    Ran("generate") =>
        \A o \in (DOMAIN self_options) \ {"run_checks"} :
            \E v1 \in Values(o), v2 \in Values(o) :
                generate(settings, [self_options EXCEPT ![o] = v1])
                    # generate(settings, [self_options EXCEPT ![o] = v2])

(***************************************************************************)
(* C6.  On an Apple OS the execute bit of the fetched configure script is  *)
(* set when autotools configure is invoked, and every other bit of its     *)
(* mode is as fetched; on any other OS the mode is never changed.          *)
(***************************************************************************)
ExecBit(m) == (m \div S_IEXEC) % 2 = 1

SameOtherBits(m, n) == m % S_IEXEC = n % S_IEXEC /\ m \div (2 * S_IEXEC) = n \div (2 * S_IEXEC)

C6_ExecuteBitOnApple ==
    source_tree = "fetched" =>
        /\ SameOtherBits(mode, mode0)
        /\ ~is_apple_os(settings) => mode = mode0
        /\ Invoked("configure") =>
              /\ exec_mode = mode
              /\ is_apple_os(settings) => ExecBit(exec_mode)

C6_Witness ==
    /\ is_apple_os(settings)
    /\ Invoked("configure")
    /\ ~ExecBit(mode0)
    /\ ExecBit(exec_mode)
    /\ exec_mode = mode0 + S_IEXEC

(***************************************************************************)
(* C7.  Each external command is invoked at most once in a run; when one   *)
(* fails its failure is the outcome of the run, it is the last command     *)
(* invoked, and the run has ended.                                         *)
(***************************************************************************)
C7_NoRetryNoRecovery ==
    /\ \A i, j \in 1..Len(trace) : i # j => trace[i] # trace[j]
    /\ \A c \in Commands :
          err = Failure[c] =>
              /\ pc = "aborted"
              /\ trace # <<>>
              /\ trace[Len(trace)] = c
    /\ pc = "aborted" => ~ENABLED Next

C7_Witness ==
    /\ err = Failure["configure"]
    /\ trace = <<"patch", "configure">>
    /\ pc = "aborted"

(***************************************************************************)
(* C8 (the order of the steps of a successful run) has no formula: no run  *)
(* is successful.  A run from construction ends in config_options() or     *)
(* configure(), and neither generate() nor package_info() ever completes.  *)
(***************************************************************************)
NoSuccessfulRun ==
    /\ pc # "done"
    /\ entry = "config_options" => pc \in {"config_options", "configure", "aborted"}
    /\ ~Completed("generate")
    /\ ~Completed("package_info")

(***************************************************************************)
(* C9.  make check is invoked exactly when run_checks is True, directly    *)
(* after a successful make; a completed build() has invoked patch,         *)
(* configure, make and, with run_checks True, make check, in that order.   *)
(***************************************************************************)
BuildCommands == {"patch", "configure", "make", "check"}

InBuild(c) == c \in BuildCommands

C9_CheckIffRunChecks ==
    /\ \A i \in 1..Len(trace) :
          trace[i] = "check" =>
              /\ Truthy(Option("run_checks"))
              /\ i > 1
              /\ trace[i - 1] = "make"
    /\ Completed("build_check") =>
          SelectSeq(trace, InBuild) =
              <<"patch", "configure", "make">>
                  \o (IF Truthy(Option("run_checks")) THEN <<"check">> ELSE <<>>)

C9_Witness ==
    /\ Completed("build_check")
    /\ Option("run_checks") = "True"
    /\ SelectSeq(trace, InBuild) = <<"patch", "configure", "make", "check">>

(***************************************************************************)
(* C10.  fPIC is removed from the option set when the OS is Windows or     *)
(* shared is True and kept otherwise; generate() emits --with-pic=yes when *)
(* fPIC was removed, and otherwise yes when fPIC is True and no when it is *)
(* False.                                                                  *)
(***************************************************************************)
C10_WithPic ==
    /\ Ran("configure") =>
          (Has(self_options, "fPIC") <=>
              ~(settings.os = "Windows" \/ Truthy(Option("shared"))))
    /\ Ran("generate") =>
          Emitted("--with-pic",
                  IF ~Has(self_options, "fPIC") \/ Truthy(Option("fPIC"))
                  THEN "yes" ELSE "no")

(***************************************************************************)
(* C11.  generate() emits --enable-assembly=no only when the declared      *)
(* option assembly is False; whenever assembly is True (the default, and   *)
(* also with fat True on x86/x86_64) it emits --enable-assembly=yes.       *)
(***************************************************************************)
C11_AssemblyFlag ==
    Ran("generate") =>
        /\ Truthy(Option("assembly")) => Emitted("--enable-assembly", "yes")
        /\ Emitted("--enable-assembly", "no") => ~Truthy(Option("assembly"))

(***************************************************************************)
(* C12.  Every option name a hook reads, tests or deletes is a key of the  *)
(* declared option table and has a default, so that no hook ever accesses  *)
(* or deletes an option that is not declared; deletions only shrink the    *)
(* option set, and none raises for an option that is already absent.       *)
(***************************************************************************)
\* the option names each step of the recipe mentions
UsedOptions ==
    [ config_options  |-> {"fPIC", "enable_fat"},
      configure       |-> {"shared", "fPIC", "enable_fat", "enable_assembly", "enable_cxx"},
      validate        |-> {"shared"},
      package_id      |-> {"run_checks"},
      source          |-> {},
      generate        |-> {"fPIC", "enable_assembly", "enable_fat", "enable_cxx"},
      build           |-> {},
      build_configure |-> {},
      build_make      |-> {},
      build_check     |-> {"run_checks"},
      package         |-> {},
      package_info    |-> {"enable_cxx"} ]

C12_OnlyDeclaredOptions ==
    /\ DOMAIN default_options = Declared
    /\ (DOMAIN self_options) \subseteq Declared
    /\ has_info => (DOMAIN info_options) \subseteq DOMAIN self_options
    /\ \A step \in DOMAIN UsedOptions :
          Ran(step) => UsedOptions[step] \subseteq Declared
    /\ err # "ConanException"

====
